---------------------------- MODULE Spec2Model ----------------------------
(***************************************************************************)
(* Model of torchsummary/torchsummary.py: summary(), get_input_tensor(),   *)
(* get_correct_input_sizes() and apply_hooks() with its hook closure.      *)
(*                                                                         *)
(* A model (nn.Module tree, possibly with a module instance shared by      *)
(* several parents, or referring back to the root) is summarised by up to  *)
(* MaxCalls successive calls of summary().  One call is three kinds of     *)
(* steps: the code before the forward pass (lines 66-94), the forward pass *)
(* itself (line 98, in which modules are invoked and their forward hooks   *)
(* fire when they complete), and the exit of the try statement (lines      *)
(* 99-111).                                                                *)
(***************************************************************************)
EXTENDS Integers, Sequences, FiniteSets, TLC

VARIABLES
    cuda_available, \* torch.cuda.is_available() of the machine
    graph,          \* index in Graphs of the model being summarised
    model_hooks,    \* forward hooks registered on the model's modules, in registration order
    call,           \* number of summary() calls started so far
    pc,             \* "idle" | "forward" | "done": position of the current call
    params,         \* the arguments of the current call
    visited,        \* the apply_hooks invocations of the current call: <<module, curr_depth>>
    hooks,          \* local `hooks` of the current call (list of handles)
    summary_list,   \* call -> the `summary_list` its hook closures captured
    idx,            \* call -> the `idx` dict its hook closures captured
    fwd,            \* what model.to(device)(*x, *args, **kwargs) received
    stack,          \* modules whose forward is running (root first)
    ninvoked,       \* number of module invocations started in this forward pass
    fwd_result,     \* "none" | "running" | "returned" | "raised" with the exception
    out,            \* what the caller of summary observes
    stdout          \* what the current call printed, in order

vars == <<cuda_available, graph, model_hooks, call, pc, params, visited, hooks,
          summary_list, idx, fwd, stack, ninvoked, fwd_result, out, stdout>>

---------------------------------------------------------------------------
(* Bounds *)

MaxCalls == 2          \* summary() calls on the same model
MaxInvocations == 3    \* module invocations inside one forward pass
MaxDepthArg == 1       \* largest `depth` argument tried

Calls == 1..MaxCalls

---------------------------------------------------------------------------
(* The models.  Module 1 is the object passed to summary.  `children` is   *)
(* module.children() (no duplicates within one parent); `atomic` are the   *)
(* modules that are instances of LAYER_MODULES.                            *)

root == 1

LAYER_MODULES(g) == g.atomic

Graphs == <<
    \* a single layer (nn.Linear)
    [children |-> <<  <<>>  >>, atomic |-> {}],
    \* nested containers: 1 -> 2 -> 3 -> 4
    [children |-> << <<2>>, <<3>>, <<4>>, <<>> >>, atomic |-> {}],
    \* module 3 is a child of both 1 and 2
    [children |-> << <<2, 3>>, <<3>>, <<>> >>, atomic |-> {}],
    \* the root is a MultiheadAttention with its out_proj child
    [children |-> << <<2>>, <<>> >>, atomic |-> {1}],
    \* module 2 holds a reference back to the root
    [children |-> << <<2>>, <<1, 3>>, <<>> >>, atomic |-> {}]
>>

G == Graphs[graph]

Nodes(g) == DOMAIN g.children

children(g, m) == g.children[m]

RECURSIVE closure(_, _)
closure(g, S) ==
    LET U == S \cup UNION {{children(g, m)[i] : i \in DOMAIN children(g, m)} : m \in S}
    IN IF U = S THEN S ELSE closure(g, U)

\* module.modules(): the module itself and everything below it, each once
modules(g, m) == closure(g, {m})

---------------------------------------------------------------------------
(* apply_hooks (lines 164-195) *)

\* line 187: submodules = [m for m in module.modules() if m is not orig_model]
submodules(g, module, orig_model) == modules(g, module) \ {orig_model}

should_hook_no_leaf(g, module, orig_model) ==
    module /= orig_model \/ module \in LAYER_MODULES(g)

\* line 188: the condition under which the module gets a forward hook
should_hook(g, module, orig_model) ==
    \/ module /= orig_model
    \/ module \in LAYER_MODULES(g)
    \/ submodules(g, module, orig_model) = {}

descend_one_more(curr_depth, depth) == curr_depth <= depth + 1

\* line 191: the condition under which the children are walked
descend(curr_depth, depth) == curr_depth <= depth

child_depth_same(curr_depth) == curr_depth

\* line 194: the curr_depth passed to the recursive call
child_depth(curr_depth) == curr_depth + 1

\* line 172: curr_depth of the first call (the default of the parameter)
root_depth == 0

RECURSIVE apply_hooks(_, _, _, _, _)
RECURSIVE apply_hooks_children(_, _, _, _, _, _)

\* The invocations of apply_hooks made from apply_hooks(module, ..., curr_depth),
\* in order, each with whether it registered a hook (line 189).
apply_hooks(g, module, orig_model, depth, curr_depth) ==
    <<[module |-> module, curr_depth |-> curr_depth,
       hooked |-> should_hook(g, module, orig_model)]>>
    \o (IF descend(curr_depth, depth)
        THEN apply_hooks_children(g, children(g, module), 1, orig_model, depth,
                                  child_depth(curr_depth))
        ELSE <<>>)

\* lines 192-195: for child in module.children(): apply_hooks(child, ...)
apply_hooks_children(g, kids, i, orig_model, depth, curr_depth) ==
    IF i > Len(kids) THEN <<>>
    ELSE apply_hooks(g, kids[i], orig_model, depth, curr_depth)
         \o apply_hooks_children(g, kids, i + 1, orig_model, depth, curr_depth)

IsHooked(v) == v.hooked

\* the handles appended to `hooks` by one apply_hooks(model, model, depth, ...) call;
\* a handle is the module it is on, the curr_depth its closure captured, the
\* call whose summary_list and idx the closure captured, and its position in `hooks`
new_handles(g, depth, c) ==
    LET hv == SelectSeq(apply_hooks(g, root, root, depth, root_depth), IsHooked)
    IN [n \in 1..Len(hv) |->
          [module |-> hv[n].module, curr_depth |-> hv[n].curr_depth, call |-> c, n |-> n]]

---------------------------------------------------------------------------
(* The hook closure (lines 176-184) *)

\* dict.get(key, 0)
get(d, key) == IF key \in DOMAIN d THEN d[key] ELSE 0

\* d[key] = value
put(d, key, value) == [k \in DOMAIN d \cup {key} |-> IF k = key THEN value ELSE d[k]]

next_order_global(ix, curr_depth) == get(ix, 0) + 1

\* line 179: the value stored in idx[curr_depth]
next_order(ix, curr_depth) == get(ix, curr_depth) + 1

\* One firing of the hook behind handle h: st is [summary_list, idx] of all calls.
hook(h, module, st) ==
    LET ix == put(st.idx[h.call], h.curr_depth, next_order(st.idx[h.call], h.curr_depth))
        info == [module |-> module, depth |-> h.curr_depth, order |-> ix[h.curr_depth]]
    IN [summary_list |-> [st.summary_list EXCEPT ![h.call] = Append(@, info)],
        idx |-> [st.idx EXCEPT ![h.call] = ix]]

\* nn.Module.__call__ runs every forward hook registered on the module, in
\* registration order, when its forward has returned
RECURSIVE fire_hooks(_, _, _, _)
fire_hooks(registered, i, module, st) ==
    IF i > Len(registered) THEN st
    ELSE fire_hooks(registered, i + 1, module,
                    IF registered[i].module = module
                    THEN hook(registered[i], module, st) ELSE st)

---------------------------------------------------------------------------
(* Values.  A size item is [k, v]: an int n is [k |-> "int", v |-> <<n>>], *)
(* a tuple or list of ints is [k |-> "tuple" | "list", v |-> its ints].    *)
(* input_data is [k, v] with k the Python type ("tensor", "tuple", "list", *)
(* "other") and v its items; for a tensor v is the items of .size().       *)

IntItem(n) == [k |-> "int", v |-> <<n>>]
TupItem(ints) == [k |-> "tuple", v |-> ints]

InputData == {
    [k |-> "tensor", v |-> <<IntItem(2), IntItem(3)>>],     \* torch.rand(2, 3)
    [k |-> "tensor", v |-> <<>>],                   \* torch.tensor(1.0): size ()
    [k |-> "tuple", v |-> <<IntItem(1), IntItem(3)>>],      \* (1, 3)
    [k |-> "list", v |-> <<IntItem(1), IntItem(3)>>],       \* [1, 3]
    [k |-> "tuple", v |-> <<TupItem(<<1, 3>>), TupItem(<<2>>)>>],  \* ((1, 3), (2,))
    [k |-> "list", v |-> <<TupItem(<<1, 3>>), IntItem(2)>>],       \* [(1, 3), 2]
    [k |-> "list", v |-> <<>>],                     \* []
    [k |-> "tuple", v |-> <<IntItem(0), IntItem(3)>>],      \* (0, 3)
    [k |-> "other", v |-> <<>>]                     \* neither a tensor nor a list/tuple
}

\* Optional[List[torch.dtype]]
NoDtypes == [none |-> TRUE, v |-> <<>>]
Dtypes == {NoDtypes, [none |-> FALSE, v |-> <<"long", "long">>]}

\* Optional[torch.device], by its .type; "none" is None.  "meta" stands for
\* the device types other than cpu and cuda.
Devices == {"none", "cpu", "cuda", "meta"}

\* a tensor on a device, or another Python object
Tensor(dev) == [kind |-> "tensor", v |-> dev]
Obj(name) == [kind |-> "obj", v |-> name]

is_tensor(t) == t.kind = "tensor"

\* t.to(device)
to(t, device) == Tensor(device)

\* **kwargs: dicts, as their items [key, value] in insertion order
Item(key, value) == [key |-> key, value |-> value]

Kwargs == {
    <<>>,
    <<Item("mode", Obj("train"))>>,
    <<Item("mode", Obj("mode"))>>,
    <<Item("mask", Tensor("cpu")), Item("mode", Obj("train"))>>
}

\* *args
Args == { <<>>, <<Tensor("cpu"), Obj("y")>> }

Verbose == {0, 1, 3}

DepthArgs == (-2)..MaxDepthArg

\* line 26: batch_dim, at its default
batch_dim == 0

---------------------------------------------------------------------------
(* get_correct_input_sizes (lines 137-161) *)

\* lines 141-147: the ints of a nested array
RECURSIVE flatten(_, _)
flatten(items, i) ==
    IF i > Len(items) THEN <<>>
    ELSE items[i].v \o flatten(items, i + 1)

IsTupleItem(items) == Len(items) > 0 /\ items[1].k = "tuple"
IsIntItem(items) == Len(items) > 0 /\ items[1].k = "int"

Exc(cls, line) == [cls |-> cls, line |-> line]
NoExc == Exc("", 0)

\* input_size is [k, v] with k "tuple" or "list".  The result is
\* [exc, v]: the exception raised ("" for none) and the list returned.
get_correct_input_sizes(input_size) ==
    LET flat == flatten(input_size.v, 1) IN
    IF input_size.v = <<>>
        THEN [exc |-> Exc("AssertionError", 149), v |-> <<>>]
    ELSE IF \E i \in DOMAIN flat : ~(flat[i] > 0)
        THEN [exc |-> Exc("AssertionError", 150), v |-> <<>>]
    ELSE IF input_size.k = "tuple" /\ IsTupleItem(input_size.v)
        THEN [exc |-> NoExc, v |-> input_size.v]
    ELSE IF input_size.k = "tuple"
        THEN [exc |-> NoExc, v |-> <<TupItem(flat)>>]
    ELSE IF input_size.k = "list" /\ IsIntItem(input_size.v)
        THEN [exc |-> NoExc, v |-> <<TupItem(flat)>>]
    ELSE IF input_size.k = "list"
        THEN [exc |-> NoExc, v |-> input_size.v]
    ELSE [exc |-> Exc("TypeError", 161), v |-> <<>>]

---------------------------------------------------------------------------
(* get_input_tensor (lines 114-134) *)

Min(a, b) == IF a < b THEN a ELSE b

\* the shape after unsqueeze(dim) and cat([t] * 2, dim)
batched(shape, dim) ==
    [i \in 1..(Len(shape) + 1) |->
        IF i <= dim THEN shape[i] ELSE IF i = dim + 1 THEN 2 ELSE shape[i - 1]]

\* lines 122-133: one tensor [shape, dtype, device] per (size, dtype) pair of the zip
get_input_tensor(input_size, bdim, dtypes, device) ==
    [i \in 1..Min(Len(input_size), Len(dtypes)) |->
        [shape |-> IF input_size[i].k \in {"list", "tuple"}
                   THEN batched(input_size[i].v, bdim)
                   ELSE <<2 * bdim>>,
         dtype |-> dtypes[i],
         device |-> device]]

---------------------------------------------------------------------------
(* summary, before the forward pass (lines 66-94) *)

\* line 73: torch.device("cuda" if torch.cuda.is_available() else "cpu"), by its .type
default_device(cuda) == IF cuda THEN "cuda" ELSE "cpu"

\* line 83: the device types for which dtypes gets a default
default_dtypes_supported(device_type) == device_type \in {"cpu", "gpu"}

\* line 84: [torch.float] * len(input_data)
default_dtypes(input_data) == [i \in 1..Len(input_data.v) |-> "float"]

\* line 93: tuple([t.to(device) if torch.is_tensor(t) else t for t in args])
forward_args(args, device) ==
    [i \in 1..Len(args) |-> IF is_tensor(args[i]) THEN to(args[i], device) ELSE args[i]]

\* line 94: {k: kwargs[k].to(device) if torch.is_tensor(kwargs[k]) else k for k in kwargs}
forward_kwargs(kwargs, device) ==
    [i \in 1..Len(kwargs) |->
        Item(kwargs[i].key,
             IF is_tensor(kwargs[i].value) THEN to(kwargs[i].value, device)
             ELSE Obj(kwargs[i].key))]

\* lines 72-94 for the arguments p: [exc, input_size, device, x, args, kwargs]
prepare(p, cuda) ==
    LET device == IF p.device = "none" THEN default_device(cuda) ELSE p.device
        Fail(e) == [exc |-> e, input_size |-> <<>>, device |-> device,
                    x |-> <<>>, args |-> <<>>, kwargs |-> <<>>]
        Go(input_size, x) ==
            [exc |-> NoExc, input_size |-> input_size, device |-> device, x |-> x,
             args |-> forward_args(p.args, device),
             kwargs |-> forward_kwargs(p.kwargs, device)]
    IN
    IF p.input_data.k = "tensor" THEN
        LET r == get_correct_input_sizes([k |-> "tuple", v |-> p.input_data.v]) IN
        IF r.exc /= NoExc THEN Fail(r.exc)
        ELSE Go(r.v, <<[shape |-> flatten(p.input_data.v, 1), dtype |-> "float",
                        device |-> device]>>)
    ELSE IF p.input_data.k \in {"list", "tuple"} THEN
        IF p.dtypes.none /\ ~default_dtypes_supported(device)
        THEN Fail(Exc("ValueError", 86))
        ELSE
            LET dtypes == IF p.dtypes.none THEN default_dtypes(p.input_data) ELSE p.dtypes.v
                r == get_correct_input_sizes(p.input_data)
            IN IF r.exc /= NoExc THEN Fail(r.exc)
               ELSE Go(r.v, get_input_tensor(r.v, batch_dim, dtypes, device))
    ELSE Fail(Exc("TypeError", 91))

---------------------------------------------------------------------------
(* summary, around the forward pass (lines 96-111) *)

\* the exceptions the forward pass raises: one that derives from Exception
\* and one that derives from BaseException only
ForwardExcs == {Exc("RuntimeError", 98), Exc("KeyboardInterrupt", 98)}

\* line 99: except Exception
is_Exception(e) == e.cls /= "KeyboardInterrupt"

\* line 100: the diagnostic printed by the except clause
diagnostic(e, sl) ==
    IF is_Exception(e) THEN <<[kind |-> "diagnostic", summary_list |-> sl]>> ELSE <<>>

reraise_as_new(e) == Exc("RuntimeError", 101)

\* line 101: raise
reraise(e) == e

remove_hooks_skipped(registered, hs) == registered

\* lines 103-104: for hook in hooks: hook.remove()
remove_hooks(registered, hs) ==
    LET Keep(h) == \A i \in DOMAIN hs : hs[i] /= h
    IN SelectSeq(registered, Keep)

\* lines 106-108: ModelStatistics(summary_list, input_size, formatting)
ModelStatistics(sl, input_size, p) ==
    [summary_list |-> sl, input_size |-> input_size,
     formatting |-> [max_depth |-> p.depth, verbose |-> p.verbose]]

\* lines 109-110: if verbose > 0: print(results)
print_results(verbose, results) ==
    IF verbose > 0 THEN <<[kind |-> "results", summary_list |-> results.summary_list]>>
    ELSE <<>>

---------------------------------------------------------------------------
(* State machine *)

NoParams == [verbose |-> 1, depth |-> 0, input_data |-> [k |-> "other", v |-> <<>>],
             device |-> "none", dtypes |-> NoDtypes, args |-> <<>>, kwargs |-> <<>>]
NoFwd == [x |-> <<>>, args |-> <<>>, kwargs |-> <<>>, device |-> "none"]
NoResult == [status |-> "none", exc |-> NoExc]
NoOut == [result |-> "none", exc |-> NoExc, stats |-> <<>>]

Init ==
    /\ cuda_available \in BOOLEAN
    /\ graph \in DOMAIN Graphs
    /\ model_hooks = <<>>
    /\ call = 0
    /\ pc = "idle"
    /\ params = NoParams
    /\ visited = <<>>
    /\ hooks = <<>>
    /\ summary_list = [c \in Calls |-> <<>>]
    /\ idx = [c \in Calls |-> <<>>]
    /\ fwd = NoFwd
    /\ stack = <<>>
    /\ ninvoked = 0
    /\ fwd_result = NoResult
    /\ out = NoOut
    /\ stdout = <<>>

\* the locals of an earlier call stay alive while a hook closure that
\* captured them is still registered on the model
Captured(c) == \E i \in DOMAIN model_hooks : model_hooks[i].call = c

\* summary(model, input_data, *args, depth, device, dtypes, verbose, **kwargs)
\* up to the start of the forward pass, or to the exception raised before it
SummaryBegin(p) ==
    /\ pc \in {"idle", "done"}
    /\ call < MaxCalls
    /\ p.device = "cuda" => cuda_available
    /\ call' = call + 1
    /\ params' = p
    /\ fwd_result' = NoResult
    /\ stdout' = <<>>
    /\ ninvoked' = 0
    /\ summary_list' = [c \in Calls |->
                          IF c /= call + 1 /\ Captured(c) THEN summary_list[c] ELSE <<>>]
    /\ idx' = [c \in Calls |-> IF c /= call + 1 /\ Captured(c) THEN idx[c] ELSE <<>>]
    /\ IF p.verbose \notin {0, 1, 2}
       THEN \* line 66
            /\ out' = [result |-> "raised", exc |-> Exc("AssertionError", 66), stats |-> <<>>]
            /\ pc' = "done"
            /\ visited' = <<>>
            /\ hooks' = <<>>
            /\ fwd' = NoFwd
            /\ stack' = <<>>
            /\ UNCHANGED model_hooks
       ELSE LET hs == new_handles(G, p.depth, call + 1)
                r == prepare(p, cuda_available)
            IN \* line 70
               /\ visited' = apply_hooks(G, root, root, p.depth, root_depth)
               /\ hooks' = hs
               /\ model_hooks' = model_hooks \o hs
               /\ IF r.exc /= NoExc
                  THEN /\ out' = [result |-> "raised", exc |-> r.exc, stats |-> <<>>]
                       /\ pc' = "done"
                       /\ fwd' = NoFwd
                       /\ stack' = <<>>
                  ELSE \* line 98: model.to(device)(*x, *args, **kwargs) starts
                       /\ out' = NoOut
                       /\ pc' = "forward"
                       /\ fwd' = [x |-> r.x, args |-> r.args, kwargs |-> r.kwargs,
                                  device |-> r.device]
                       /\ stack' = <<root>>
    /\ UNCHANGED <<cuda_available, graph>>

\* a running forward calls one of its module's children
Invoke(m) ==
    /\ pc = "forward"
    /\ ninvoked < MaxInvocations
    /\ \E i \in DOMAIN children(G, stack[Len(stack)]) : children(G, stack[Len(stack)])[i] = m
    /\ stack' = Append(stack, m)
    /\ ninvoked' = ninvoked + 1
    /\ UNCHANGED <<cuda_available, graph, model_hooks, call, pc, params, visited, hooks,
                   summary_list, idx, fwd, fwd_result, out, stdout>>

\* the forward of a module below the root returns: its forward hooks fire
Complete ==
    /\ pc = "forward"
    /\ Len(stack) > 1
    /\ LET st == fire_hooks(model_hooks, 1, stack[Len(stack)],
                            [summary_list |-> summary_list, idx |-> idx])
       IN /\ summary_list' = st.summary_list
          /\ idx' = st.idx
    /\ stack' = SubSeq(stack, 1, Len(stack) - 1)
    /\ UNCHANGED <<cuda_available, graph, model_hooks, call, pc, params, visited, hooks,
                   fwd, ninvoked, fwd_result, out, stdout>>

\* the forward of the root returns: its hooks fire, then lines 102-111
ForwardReturn ==
    /\ pc = "forward"
    /\ Len(stack) = 1
    /\ LET st == fire_hooks(model_hooks, 1, stack[1],
                            [summary_list |-> summary_list, idx |-> idx])
           results == ModelStatistics(st.summary_list[call], prepare(params, cuda_available).input_size,
                                      params)
       IN /\ summary_list' = st.summary_list
          /\ idx' = st.idx
          /\ stdout' = stdout \o print_results(params.verbose, results)
          /\ out' = [result |-> "returned", exc |-> NoExc, stats |-> <<results>>]
    /\ fwd_result' = [status |-> "returned", exc |-> NoExc]
    /\ model_hooks' = remove_hooks(model_hooks, hooks)
    /\ stack' = <<>>
    /\ pc' = "done"
    /\ UNCHANGED <<cuda_available, graph, call, params, visited, hooks, fwd, ninvoked>>

\* the forward pass raises e (in a forward or in a hook): lines 99-104
ForwardRaise(e) ==
    /\ pc = "forward"
    /\ fwd_result' = [status |-> "raised", exc |-> e]
    /\ stdout' = stdout \o diagnostic(e, summary_list[call])
    /\ model_hooks' = remove_hooks(model_hooks, hooks)
    /\ out' = [result |-> "raised", exc |-> reraise(e), stats |-> <<>>]
    /\ stack' = <<>>
    /\ pc' = "done"
    /\ UNCHANGED <<cuda_available, graph, call, params, visited, hooks, summary_list, idx,
                   fwd, ninvoked>>

\* The calls tried.  Each group varies the arguments one part of summary reads
\* and holds the others at values with which every machine reaches that part.
\* The first call on a model is any of them; a call on a model that was
\* summarised before is one of the walker group.
ATensor == [k |-> "tensor", v |-> <<IntItem(2), IntItem(3)>>]

\* the walker and the forward pass: depth
WalkerParams ==
    [verbose : {1}, depth : DepthArgs, input_data : {ATensor}, device : {"none"},
     dtypes : {NoDtypes}, args : {<<>>}, kwargs : {<<>>}]

Params ==
    WalkerParams
    \cup
    \* lines 72-91: input_data, device, dtypes
    [verbose : {1}, depth : {MaxDepthArg}, input_data : InputData, device : Devices,
     dtypes : Dtypes, args : {<<>>}, kwargs : {<<>>}]
    \cup
    \* lines 93-94: args, kwargs, device
    [verbose : {1}, depth : {MaxDepthArg}, input_data : {ATensor}, device : Devices,
     dtypes : {NoDtypes}, args : Args, kwargs : Kwargs]
    \cup
    \* lines 66, 109: verbose
    [verbose : Verbose, depth : {MaxDepthArg}, input_data : {ATensor}, device : {"none"},
     dtypes : {NoDtypes}, args : {<<>>}, kwargs : {<<>>}]

Next ==
    \/ \E p \in (IF call = 0 THEN Params ELSE WalkerParams) : SummaryBegin(p)
    \/ \E m \in Nodes(G) : Invoke(m)
    \/ Complete
    \/ ForwardReturn
    \/ \E e \in ForwardExcs : ForwardRaise(e)

Spec == Init /\ [][Next]_vars

---------------------------------------------------------------------------
(* Properties *)

Max(a, b) == IF a > b THEN a ELSE b

\* the handles of the current call that are still registered on the model
Attached == {i \in DOMAIN hooks : \E j \in DOMAIN model_hooks : model_hooks[j] = hooks[i]}

\* the current call has a hook on module m
Instrumented(m) == \E i \in DOMAIN hooks : hooks[i].module = m

\* the records of a list at one depth, in list order
AtDepth(sl, d) == LET Is(r) == r.depth = d IN SelectSeq(sl, Is)

Depths == 0..(MaxDepthArg + 3)

\* the modules reached from the root by exactly n child steps
RECURSIVE Level(_, _)
Level(g, n) ==
    IF n = 0 THEN {root}
    ELSE UNION {{children(g, m)[i] : i \in DOMAIN children(g, m)} : m \in Level(g, n - 1)}

\* the records of the current call
Records == IF call = 0 THEN {} ELSE {summary_list[call][i] : i \in DOMAIN summary_list[call]}

\* C1: when a call that reached the forward pass has exited, by return or by
\* raise, none of the hooks it registered is still on the model.
C1_HooksRemovedOnExit ==
    (pc = "done" /\ fwd_result.status /= "none") =>
        /\ Attached = {}
        /\ \A j \in DOMAIN model_hooks : model_hooks[j].call /= call

\* C1 witness: the forward pass of a call that registered hooks raised after
\* one of them fired, and the call has exited.
C1_Witness ==
    /\ pc = "done"
    /\ fwd_result.status = "raised"
    /\ hooks /= <<>>
    /\ summary_list[call] /= <<>>

\* the errors of a malformed or empty input specification or an unsupported device
InputErrors ==
    {Exc("AssertionError", 149), Exc("AssertionError", 150), Exc("TypeError", 91),
     Exc("TypeError", 161), Exc("ValueError", 86)}

\* C2: when summary fails on the input specification or the device, no hook
\* of that call is registered on the model at the moment the caller sees the error.
C2_NoHookOnInvalidInput ==
    (pc = "done" /\ out.result = "raised" /\ out.exc \in InputErrors) => Attached = {}

\* the classes of ForwardExcs that derive from Exception
ExceptionClasses == {"RuntimeError"}

\* C3 as claimed: whenever the forward pass raises, the diagnostic with the
\* records captured so far is printed, the same exception reaches the caller
\* and no ModelStatistics is built.
C3_DiagnosticThenSameException ==
    (pc = "done" /\ fwd_result.status = "raised") =>
        /\ stdout = <<[kind |-> "diagnostic", summary_list |-> summary_list[call]]>>
        /\ out.result = "raised"
        /\ out.exc = fwd_result.exc
        /\ out.stats = <<>>

\* C3 amended: whenever the forward pass raises, the same exception reaches
\* the caller and no ModelStatistics is built; the diagnostic with the
\* records captured so far is printed exactly when the exception derives
\* from Exception.
C3_SameExceptionDiagnosticForException ==
    (pc = "done" /\ fwd_result.status = "raised") =>
        /\ out.result = "raised"
        /\ out.exc = fwd_result.exc
        /\ out.stats = <<>>
        /\ IF fwd_result.exc.cls \in ExceptionClasses
           THEN stdout = <<[kind |-> "diagnostic", summary_list |-> summary_list[call]]>>
           ELSE stdout = <<>>

\* C3 witness: the forward pass raised an Exception after a record was captured.
C3_Witness ==
    /\ pc = "done"
    /\ fwd_result.status = "raised"
    /\ fwd_result.exc.cls \in ExceptionClasses
    /\ summary_list[call] /= <<>>
    /\ Len(stdout) = 1

\* C4: when the forward of an instrumented module returns, exactly one
\* record is appended to the record list of the call.
C4_OneRecordPerInvocation ==
    [][((Complete \/ ForwardReturn) /\ Instrumented(stack[Len(stack)])) =>
           Len(summary_list'[call]) = Len(summary_list[call]) + 1]_vars

\* C5 as claimed: for a depth argument >= 0, no module is visited or hooked
\* at a depth above it, and no record has a depth above it.
C5_NothingBeyondMaxDepth ==
    (call > 0 /\ params.depth >= 0) =>
        /\ \A i \in DOMAIN visited : visited[i].curr_depth <= params.depth
        /\ \A i \in DOMAIN hooks : hooks[i].curr_depth <= params.depth
        /\ \A r \in Records : r.depth <= params.depth

\* C5 amended: no module is visited or hooked at a depth above max_depth + 1
\* (the root, at depth 0, is always visited), and no record has a depth
\* above it.
C5_NothingBeyondMaxDepthPlusOne ==
    call > 0 =>
        /\ \A i \in DOMAIN visited : visited[i].curr_depth <= Max(0, params.depth + 1)
        /\ \A i \in DOMAIN hooks : hooks[i].curr_depth <= Max(0, params.depth + 1)
        /\ \A r \in Records : r.depth <= Max(0, params.depth + 1)

\* C5 witness: in the chain 1 -> 2 -> 3 -> 4 walked with depth 1, module 3 is
\* hooked at depth 2 and has produced a record, and module 4 was not visited.
C5_Witness ==
    /\ graph = 2
    /\ params.depth = 1
    /\ \E i \in DOMAIN hooks : hooks[i].module = 3 /\ hooks[i].curr_depth = 2
    /\ \A i \in DOMAIN visited : visited[i].module /= 4
    /\ \E r \in Records : r.module = 3 /\ r.depth = 2

C7_ChildrenAtDepthZero ==
    \A r \in Records : r.module /= root => r.module \in Level(G, r.depth + 1)

\* C7 amended: depth numbering starts at 0 for the root itself: a hook or a
\* record that carries depth d belongs to a module d child steps below the
\* root, so the root's direct children carry depth 1.
C7_DepthIsDistanceFromRoot ==
    /\ \A r \in Records : r.module \in Level(G, r.depth)
    /\ \A i \in DOMAIN hooks : hooks[i].module \in Level(G, hooks[i].curr_depth)

\* C7 witness: in the chain 1 -> 2 -> 3 -> 4, module 2 produced a record of
\* depth 1 and module 3 a record of depth 2.
C7_Witness ==
    /\ graph = 2
    /\ \E r \in Records : r.module = 2 /\ r.depth = 1
    /\ \E r \in Records : r.module = 3 /\ r.depth = 2

\* C8: the forward call receives every non-tensor keyword argument with the
\* value the caller gave.
C8_NonTensorKwargsUnchanged ==
    pc = "forward" =>
        /\ Len(fwd.kwargs) = Len(params.kwargs)
        /\ \A i \in DOMAIN params.kwargs :
             ~is_tensor(params.kwargs[i].value) => fwd.kwargs[i] = params.kwargs[i]

\* C9: with a list or tuple input and neither dtypes nor device given, the
\* call never fails with "Specified device not supported", and every input
\* tensor is float.
C9_DefaultDeviceSupported ==
    (/\ call > 0
     /\ params.input_data.k \in {"list", "tuple"}
     /\ params.dtypes.none
     /\ params.device = "none") =>
        /\ out.exc /= Exc("ValueError", 86)
        /\ pc = "forward" => \A i \in DOMAIN fwd.x : fwd.x[i].dtype = "float"

\* C10: in the record list of every call, the records of each depth carry
\* the orders 1, 2, ..., n in list order, and the counter of that depth is n
\* (no counter for a depth without records).
C10_OrdersPerDepth ==
    \A c \in Calls : \A d \in Depths :
        LET recs == AtDepth(summary_list[c], d) IN
        /\ \A j \in DOMAIN recs : recs[j].order = j
        /\ get(idx[c], d) = Len(recs)
        /\ DOMAIN idx[c] \subseteq Depths

\* C10 witness: in a second call on the model, two records of depth 1 and
\* one of depth 2 were produced.
C10_Witness ==
    /\ call = 2
    /\ Len(AtDepth(summary_list[call], 1)) = 2
    /\ Len(AtDepth(summary_list[call], 2)) = 1

============================================================================
